---- MODULE Spec2Model ----
(***************************************************************************)
(* The download page of openplanetdata.com: the load sequence that fetches *)
(* the OpenStreetMap manifest, normalizes it into FileItems, enriches each *)
(* item with the digest of its ".sha256" companion, and displays the list. *)
(*                                                                         *)
(* The repository carries three variants of the page:                      *)
(*   "osm"     src/app/page.tsx              category-keyed manifest,      *)
(*                                           no sorting                    *)
(*   "planet"  src/unnamed/part_000:1-515    array manifest, URLs built    *)
(*                                           from a template, sorted       *)
(*   "osmtz"   src/unnamed/part_000:516-890  category-keyed manifest,      *)
(*                                           sorted                        *)
(*                                                                         *)
(* JavaScript strings are TLA+ strings; TLC evaluates Len, SubSeq and \o   *)
(* on them, so split, pop, trim and parseInt are computed character by     *)
(* character as the engine computes them.                                  *)
(***************************************************************************)
EXTENDS Integers, Sequences, FiniteSets, TLC

(* ------------------------------------------------------------------ *)
(* Bounds                                                             *)
(* ------------------------------------------------------------------ *)

\* The largest number of entries a manifest of the model carries.
MaxEntries == 2

(* ------------------------------------------------------------------ *)
(* Strings                                                            *)
(* ------------------------------------------------------------------ *)

CharAt(s, i) == SubSeq(s, i, i)

\* String.prototype.indexOf(c, from): the first position >= i of the
\* character c in s, 0 when there is none (positions count from 1).
RECURSIVE IndexOf(_, _, _)
IndexOf(s, c, i) ==
    IF i > Len(s) THEN 0
    ELSE IF CharAt(s, i) = c THEN i
    ELSE IndexOf(s, c, i + 1)

\* The last position <= i of the character c in s, 0 when there is none.
RECURSIVE LastIndexOf(_, _, _)
LastIndexOf(s, c, i) ==
    IF i < 1 THEN 0
    ELSE IF CharAt(s, i) = c THEN i
    ELSE LastIndexOf(s, c, i - 1)

\* s.split(sep).pop(): the segment after the last sep, the whole of s when
\* sep does not occur.  split never returns an empty array, so pop() is
\* never undefined.
SplitPop(s, sep) == SubSeq(s, LastIndexOf(s, sep, Len(s)) + 1, Len(s))

\* s.split(sep)[0]: the segment before the first sep, the whole of s when
\* sep does not occur.
SplitFirst(s, sep) ==
    LET k == IndexOf(s, sep, 1)
    IN  IF k = 0 THEN s ELSE SubSeq(s, 1, k - 1)

\* x || "": the empty string is the only falsy string.
OrEmpty(s) == IF s = "" THEN "" ELSE s

\* The white space String.prototype.trim removes, within the model's
\* alphabet: space, tab, line feed.
WhiteSpace == {" ", "\t", "\n"}

RECURSIVE TrimStart(_)
TrimStart(s) ==
    IF s # "" /\ CharAt(s, 1) \in WhiteSpace THEN TrimStart(SubSeq(s, 2, Len(s)))
    ELSE s

RECURSIVE TrimEnd(_)
TrimEnd(s) ==
    IF s # "" /\ CharAt(s, Len(s)) \in WhiteSpace
    THEN TrimEnd(SubSeq(s, 1, Len(s) - 1))
    ELSE s

\* String.prototype.trim
Trim(s) == TrimEnd(TrimStart(s))

Lower == "abcdefghijklmnopqrstuvwxyz"
Upper == "ABCDEFGHIJKLMNOPQRSTUVWXYZ"

\* String.prototype.toUpperCase on the model's alphabet.
RECURSIVE ToUpperCase(_)
ToUpperCase(s) ==
    IF s = "" THEN ""
    ELSE LET c == CharAt(s, 1)
             k == IndexOf(Lower, c, 1)
         IN  (IF k = 0 THEN c ELSE CharAt(Upper, k))
                 \o ToUpperCase(SubSeq(s, 2, Len(s)))

\* The collation order of the characters that occur in the extensions of
\* the model: punctuation before digits before letters, as the root
\* collation of String.prototype.localeCompare orders them.
Collation == "-./0123456789abcdefghijklmnopqrstuvwxyz"

\* The rank of each character of Collation: its position.
CollationTable ==
    [c \in { CharAt(Collation, i) : i \in 1..Len(Collation) } |->
        IndexOf(Collation, c, 1)]

\* The rank of a character in the collation order, 0 for a character that
\* Collation does not hold.
CollationRank(c) == IF c \in DOMAIN CollationTable THEN CollationTable[c] ELSE 0

\* a.localeCompare(b): negative, zero or positive.
RECURSIVE LocaleCompare(_, _)
LocaleCompare(a, b) ==
    IF a = "" /\ b = "" THEN 0
    ELSE IF a = "" THEN -1
    ELSE IF b = "" THEN 1
    ELSE LET ra == CollationRank(CharAt(a, 1))
             rb == CollationRank(CharAt(b, 1))
         IN  IF ra < rb THEN -1
             ELSE IF ra > rb THEN 1
             ELSE LocaleCompare(SubSeq(a, 2, Len(a)), SubSeq(b, 2, Len(b)))

(* ------------------------------------------------------------------ *)
(* JavaScript values of the size field                                *)
(* ------------------------------------------------------------------ *)

\* A number, a string or NaN; typeof NaN is "number".
JSNum(n) == [type |-> "number", nan |-> FALSE, num |-> n, str |-> ""]
JSStr(s) == [type |-> "string", nan |-> FALSE, num |-> 0, str |-> s]
JSNaN == [type |-> "number", nan |-> TRUE, num |-> 0, str |-> ""]

Digits == "0123456789"

\* The value of the longest prefix of decimal digits of s, read left to
\* right from the accumulator acc; seen tells whether a digit was read.
RECURSIVE ParseDigits(_, _, _)
ParseDigits(s, acc, seen) ==
    LET d == IF s = "" THEN 0 ELSE IndexOf(Digits, CharAt(s, 1), 1)
    IN  IF d = 0 THEN (IF seen THEN JSNum(acc) ELSE JSNaN)
        ELSE ParseDigits(SubSeq(s, 2, Len(s)), acc * 10 + (d - 1), TRUE)

\* parseInt(s, 10): leading white space skipped, an optional sign, then the
\* longest prefix of digits; NaN when there is no digit.
ParseInt(s) ==
    LET t == TrimStart(s)
        neg == t # "" /\ CharAt(t, 1) = "-"
        signed == t # "" /\ CharAt(t, 1) \in {"-", "+"}
        r == ParseDigits(IF signed THEN SubSeq(t, 2, Len(t)) ELSE t, 0, FALSE)
    IN  IF r.nan THEN r ELSE IF neg THEN JSNum(0 - r.num) ELSE r

(* ------------------------------------------------------------------ *)
(* Records                                                            *)
(* ------------------------------------------------------------------ *)

\* Object spread { ...base, k1, k2 }: the own fields of base, then the
\* fields of over, which replace the fields of base of the same name.
Spread(base, over) ==
    [k \in DOMAIN base \cup DOMAIN over |->
        IF k \in DOMAIN over THEN over[k] ELSE base[k]]

\* The sentinel of a checksum that could not be obtained.
NA == "N/A"

Base == "https://download.openplanetdata.com/"

Variants == {"osm", "planet", "osmtz"}

\* The variants whose load sequence sorts the enriched list.
SortingVariants == {"planet", "osmtz"}

ManifestUrl(v) ==
    IF v = "planet" THEN Base \o "osm/planet.metadata"
    ELSE Base \o "osm/metadata.json"

(* ------------------------------------------------------------------ *)
(* Manifest loader: normalization                                     *)
(* ------------------------------------------------------------------ *)

\* The mutant of NormalizeEntry that spreads the entry last,
\* { kind, filename, ...item }: the entry's own fields win.
NormalizeEntryItemWins(kind, item) ==
    Spread([kind |-> kind, filename |-> OrEmpty(SplitPop(item.url, "/"))], item)

\* One entry of a category-keyed manifest under the key kind:
\*     const filename = (item.url as string).split("/").pop() || "";
\*     items.push({ ...(item as any), kind, filename });
NormalizeEntry(kind, item) ==
    Spread(item, [kind |-> kind, filename |-> OrEmpty(SplitPop(item.url, "/"))])

\* The mutant of NormalizeCategory that loses the last entry of a category.
NormalizeCategoryDropLast(kind, arr) ==
    [i \in 1..(Len(arr) - 1) |-> NormalizeEntry(kind, arr[i])]

\* (arr as any[]).forEach(item => ...): the entries of one category, in order.
NormalizeCategory(kind, arr) ==
    [i \in 1..Len(arr) |-> NormalizeEntry(kind, arr[i])]

\* Object.entries(data).forEach(([kind, arr]) => ...): data is the sequence
\* of the manifest's [key, arr] pairs in Object.entries order.
RECURSIVE NormalizeObject(_)
NormalizeObject(entries) ==
    IF entries = <<>> THEN <<>>
    ELSE NormalizeCategory(Head(entries).key, Head(entries).arr)
             \o NormalizeObject(Tail(entries))

\* The size of a planet.metadata entry:
\*     typeof item.size === 'string' ? parseInt(item.size, 10) : item.size
CoerceSize(size) == IF size.type = "string" THEN ParseInt(size.str) ELSE size

\* The mutant of NormalizePlanet that builds the url without the "v" in
\* front of the version.
NormalizePlanetNoV(item) ==
    [url |-> Base \o item.remote_path \o "/" \o item.remote_version
                  \o "/" \o item.remote_filename,
     size |-> CoerceSize(item.size),
     created |-> item.created,
     kind |-> ToUpperCase(item.format),
     filename |-> item.remote_filename,
     deprecated |-> item.deprecated,
     deprecation_reason |-> item.deprecation_reason,
     version |-> item.remote_version]

\* One entry of the array manifest (data.map callback).
NormalizePlanet(item) ==
    [url |-> Base \o item.remote_path \o "/v" \o item.remote_version
                  \o "/" \o item.remote_filename,
     size |-> CoerceSize(item.size),
     created |-> item.created,
     kind |-> ToUpperCase(item.format),
     filename |-> item.remote_filename,
     deprecated |-> item.deprecated,
     deprecation_reason |-> item.deprecation_reason,
     version |-> item.remote_version]

\* data.map(item => ...)
NormalizeArray(arr) == [i \in 1..Len(arr) |-> NormalizePlanet(arr[i])]

\* The items of a parsed manifest, by page variant.
Normalize(v, d) ==
    IF v = "planet" THEN NormalizeArray(d.v) ELSE NormalizeObject(d.v)

(* ------------------------------------------------------------------ *)
(* Checksum enricher                                                  *)
(* ------------------------------------------------------------------ *)

\* The outcome of fetch(url + ".sha256").then(r => r.text()): the chain
\* rejects (network error, or the body cannot be read), or fulfils with the
\* body text of a response of any status (fetch does not reject on 404).
Rejected == [settled |-> "rejected", status |-> 0, body |-> ""]
Fulfilled(status, body) == [settled |-> "fulfilled", status |-> status, body |-> body]

\* text.split(" ")[0].trim()
ParseDigest(text) == Trim(SplitFirst(text, " "))

\* The mutant of WithSha256 that reads the digest whatever the outcome.
WithSha256NoCatch(item, r) == Spread(item, [sha256 |-> ParseDigest(r.body)])

\* The mutant of WithSha256 that returns a record of the digest alone,
\* without the spread of the item.
WithSha256DigestOnly(item, r) ==
    IF r.settled = "rejected" THEN [sha256 |-> NA]
    ELSE [sha256 |-> ParseDigest(r.body)]

\* The value of one items.map callback:
\*     try   { ...; return { ...item, sha256: text.split(" ")[0].trim() }; }
\*     catch { return { ...item, sha256: "N/A" }; }
WithSha256(item, r) ==
    IF r.settled = "rejected" THEN Spread(item, [sha256 |-> NA])
    ELSE Spread(item, [sha256 |-> ParseDigest(r.body)])

(* ------------------------------------------------------------------ *)
(* Sort by file extension                                             *)
(* ------------------------------------------------------------------ *)

\* a.filename.split('.').pop() || ''
ExtOf(f) == OrEmpty(SplitPop(f.filename, "."))

\* The comparator of the sort: extA.localeCompare(extB).
\*     const extA = ...; const extB = ...; return extA.localeCompare(extB);
CompareExt(a, b) ==
    LET cmp[extA \in {ExtOf(a)}, extB \in {ExtOf(b)}] == LocaleCompare(extA, extB)
    IN  cmp[ExtOf(a), ExtOf(b)]

\* The mutant of Insert that places x in front of the elements that compare
\* equal to it.
RECURSIVE InsertBeforeEqual(_, _)
InsertBeforeEqual(s, x) ==
    IF s = <<>> THEN <<x>>
    ELSE IF CompareExt(s[Len(s)], x) >= 0
         THEN InsertBeforeEqual(SubSeq(s, 1, Len(s) - 1), x) \o <<s[Len(s)]>>
         ELSE s \o <<x>>

\* x placed into the sorted sequence s behind every element that does not
\* compare greater than x.
RECURSIVE Insert(_, _)
Insert(s, x) ==
    IF s = <<>> THEN <<x>>
    ELSE IF CompareExt(s[Len(s)], x) > 0
         THEN Insert(SubSeq(s, 1, Len(s) - 1), x) \o <<s[Len(s)]>>
         ELSE s \o <<x>>

\* The mutant of SortByExt that takes the elements from the last to the
\* first: its result is in ascending order, with ties in reverse.
RECURSIVE SortByExtFromLast(_)
SortByExtFromLast(s) ==
    IF s = <<>> THEN <<>>
    ELSE Insert(SortByExtFromLast(Tail(s)), Head(s))

\* Array.prototype.sort with the comparator CompareExt; the sort is stable
\* (ECMAScript 2019), so its result is the one insertion sort gives.
RECURSIVE SortByExt(_)
SortByExt(s) ==
    IF s = <<>> THEN <<>>
    ELSE Insert(SortByExt(SubSeq(s, 1, Len(s) - 1)), s[Len(s)])

\* The mutant of Sorted in which no variant sorts.
SortedNowhere(v, arr) == arr

\* The array handed to setFiles: withHash in the "osm" variant, the sorted
\* withHash in the others.
Sorted(v, arr) == IF v \in SortingVariants THEN SortByExt(arr) ELSE arr

(* ------------------------------------------------------------------ *)
(* The remote resources a run may meet                                *)
(* ------------------------------------------------------------------ *)

\* Entries of the category-keyed manifest (osm/metadata.json).  The first is
\* the entry of the specification's scenario, with its size a numeric
\* string; the third carries fields of its own named kind and filename.
CatEntries ==
    { [url |-> "https://x/a.pbf", size |-> JSStr("100"), created |-> 1700000000],
      [url |-> Base \o "osm/planet/gol/planet-latest.osm.gol",
       size |-> JSNum(7), created |-> 1700000001],
      [url |-> Base \o "osm/planet/pbf/planet-latest.osm.pbf",
       size |-> JSNum(12), created |-> 1700000002,
       kind |-> "own", filename |-> "own.txt"] }

\* Entries of the array manifest (osm/planet.metadata).
PlanetEntries ==
    { [format |-> "pbf", size |-> JSStr("100"), created |-> 1700000000,
       remote_path |-> "osm/planet/pbf", remote_version |-> "1",
       remote_filename |-> "planet-latest.osm.pbf",
       deprecated |-> FALSE, deprecation_reason |-> ""],
      [format |-> "gol", size |-> JSNum(7), created |-> 1700000001,
       remote_path |-> "osm/planet/gol", remote_version |-> "2",
       remote_filename |-> "planet-latest.osm.gol",
       deprecated |-> TRUE, deprecation_reason |-> "superseded"],
      [format |-> "pbf", size |-> JSNum(12), created |-> 1700000002,
       remote_path |-> "osm/planet/pbf", remote_version |-> "2",
       remote_filename |-> "planet-latest.osm.pbf",
       deprecated |-> FALSE, deprecation_reason |-> ""] }

\* The sequences of at most MaxEntries elements of S.
SeqsUpTo(S) == UNION { [1..n -> S] : n \in 0..MaxEntries }

\* The parsed bodies of the category-keyed manifest, as the sequence of the
\* object's [key, arr] pairs in Object.entries order: the empty object, an
\* object of the key "pbf", and an object of the keys "pbf" and "gol" that
\* share the entries in every way, an empty category included.
ObjectManifests ==
    { <<>> }
    \cup { << [key |-> "pbf", arr |-> es] >> : es \in SeqsUpTo(CatEntries) }
    \cup { << [key |-> "pbf", arr |-> SubSeq(q[1], 1, q[2])],
              [key |-> "gol", arr |-> SubSeq(q[1], q[2] + 1, Len(q[1]))] >> :
             q \in { r \in SeqsUpTo(CatEntries) \X (0..MaxEntries) : r[2] <= Len(r[1]) } }

\* The parsed bodies of the array manifest.
ArrayManifests == SeqsUpTo(PlanetEntries)

\* What res.json() can fulfil with: the manifest of the variant's shape, or
\* the JSON value null.
NoData == [shape |-> "none", v |-> <<>>]
JsonNull == [shape |-> "null", v |-> <<>>]
JsonBodies(v) ==
    { JsonNull }
    \cup IF v = "planet"
         THEN { [shape |-> "array", v |-> m] : m \in ArrayManifests }
         ELSE { [shape |-> "object", v |-> m] : m \in ObjectManifests }

\* The bodies of a ".sha256" companion: the digest followed by two spaces
\* and the file name, the empty body, a body starting with a space, and a
\* body whose separator is a tab.
Bodies == { "deadbeef  a.pbf\n", "", " deadbeef", "cafe\ta.pbf\n" }

\* The outcomes of one checksum fetch.
Responses ==
    { Rejected }
    \cup { Fulfilled(200, b) : b \in Bodies }
    \cup { Fulfilled(404, "Not Found") }

\* No time-zone metadata yet (TzNoMeta), and what
\* fetch(`${baseUrl}.metadata`).then(r => r.json()) can fulfil
\* with: the JSON value null, or an object { created, size }.
TzNoMeta == [shape |-> "none", created |-> 0, size |-> JSNum(0)]
TzNullMeta == [shape |-> "null", created |-> 0, size |-> JSNum(0)]
TzMetaBodies ==
    { TzNullMeta, [shape |-> "object", created |-> 1700000003, size |-> JSNum(42)] }

\* useState<FileItem | null>(null)
NoFile == [null |-> TRUE]

\* The slot of withHash that no callback has filled yet.
Unsettled == [settled |-> "pending", status |-> 0, body |-> ""]
Hole == [hole |-> TRUE]

(* ------------------------------------------------------------------ *)
(* State                                                              *)
(* ------------------------------------------------------------------ *)

VARIABLES
    variant,        \* the page variant that is mounted
    pc,             \* the position of the effect's async function
    manifest,       \* the state of the manifest fetch
    data,           \* the parsed manifest
    items,          \* the normalized FileItems
    requests,       \* the URLs fetched so far, in the order of issue
    pending,        \* the indices of items whose checksum fetch is in flight
    resp,           \* the outcome of each settled checksum fetch
    withHash,       \* the values of Promise.all, by index
    outOfOrder,     \* a checksum fetch settled before one issued earlier
    files,          \* React state: useState<FileItem[]>([])
    loading,        \* React state: useState(true)
    setFilesCalls   \* the number of calls of setFiles

\* The time-zone section of the "planet" and "osmtz" variants, and the view.
VARIABLES
    tzpc,           \* the position of the time-zone effect's async function
    tzMeta,         \* the state of the ".metadata" fetch
    tzData,         \* the parsed ".metadata" body
    tzResp,         \* the outcome of the ".sha256" fetch
    tzRequests,     \* the URLs the time-zone effect fetched, in order
    tzFile,         \* React state: useState<FileItem | null>(null)
    tzLoading,      \* React state: useState(true)
    viewAlive       \* the Page component is mounted

\* One row of the downloads table (HashRow) that the model follows.
VARIABLES
    row,            \* the index in files of the row's file, 0 before it mounts
    copied,         \* React state of the row: useState(false)
    rcloneOpen,     \* React state of the row: useState(false)
    rcloneCopied,   \* React state of the row: useState(false)
    copiedTimers,   \* the due times of the timers of copyHash not fired yet
    rcloneTimers,   \* the due times of the timers of copyRclone not fired yet
    now,            \* the time since the row mounted, in milliseconds
    clipboard,      \* the text last written to the clipboard, if any
    lastCall        \* the copy handler called last and how its call ended

\* The state of the OpenStreetMap section but its loading flag.
osmRest ==
    << variant, pc, manifest, data, items, requests, pending, resp, withHash,
       outOfOrder, files, setFilesCalls >>

\* The state of the time-zone section but its loading flag.
tzRest == << tzpc, tzMeta, tzData, tzResp, tzRequests, tzFile >>

\* The state of the row.
rowVars ==
    << row, copied, rcloneOpen, rcloneCopied, copiedTimers, rcloneTimers, now,
       clipboard, lastCall >>

\* The clipboard before the page writes to it.
NoClip == [written |-> FALSE, text |-> "", by |-> "none"]

\* No copy handler has been called yet.
NoCall == [handler |-> "none", outcome |-> "none"]

vars ==
    << variant, pc, manifest, data, items, requests, pending, resp, withHash,
       outOfOrder, files, loading, setFilesCalls,
       tzpc, tzMeta, tzData, tzResp, tzRequests, tzFile, tzLoading, viewAlive,
       row, copied, rcloneOpen, rcloneCopied, copiedTimers, rcloneTimers, now,
       clipboard, lastCall >>

Init ==
    /\ variant \in Variants
    /\ pc = "mounted"
    /\ manifest = "unsent"
    /\ data = NoData
    /\ items = <<>>
    /\ requests = <<>>
    /\ pending = {}
    /\ resp = <<>>
    /\ withHash = <<>>
    /\ outOfOrder = FALSE
    /\ files = <<>>
    /\ loading = TRUE
    /\ setFilesCalls = 0
    /\ tzpc = "mounted"
    /\ tzMeta = "unsent"
    /\ tzData = TzNoMeta
    /\ tzResp = Unsettled
    /\ tzRequests = <<>>
    /\ tzFile = NoFile
    /\ tzLoading = TRUE
    /\ viewAlive = TRUE
    /\ row = 0
    /\ copied = FALSE
    /\ rcloneOpen = FALSE
    /\ rcloneCopied = FALSE
    /\ copiedTimers = <<>>
    /\ rcloneTimers = <<>>
    /\ now = 0
    /\ clipboard = NoClip
    /\ lastCall = NoCall

(* ------------------------------------------------------------------ *)
(* The load sequence: useEffect(() => { (async () => { ... })(); }, [])*)
(* ------------------------------------------------------------------ *)

\* The mutant of Throw without the finally block.
ThrowNoFinally ==
    /\ loading' = loading
    /\ pc' = "done"

\* An exception leaves the try block: finally { setLoading(false); } runs
\* and the async function ends; nothing after the throwing statement runs.
Throw ==
    /\ loading' = FALSE
    /\ pc' = "done"

\* The effect runs once after mount and issues the manifest fetch.
StartEffect ==
    /\ pc = "mounted"
    /\ requests' = <<ManifestUrl(variant)>>
    /\ manifest' = "pending"
    /\ pc' = "awaitFetch"
    /\ UNCHANGED << variant, data, items, pending, resp, withHash, outOfOrder,
                    files, loading, setFilesCalls >>

\* await fetch(manifest) rejects: a network error.
ManifestFetchRejects ==
    /\ pc = "awaitFetch"
    /\ manifest' = "rejected"
    /\ Throw
    /\ UNCHANGED << variant, data, items, requests, pending, resp, withHash,
                    outOfOrder, files, setFilesCalls >>

\* await fetch(manifest) fulfils with a response; res.json() starts.
ManifestFetchFulfils ==
    /\ pc = "awaitFetch"
    /\ manifest' = "fulfilled"
    /\ pc' = "awaitJson"
    /\ UNCHANGED << variant, data, items, requests, pending, resp, withHash,
                    outOfOrder, files, loading, setFilesCalls >>

\* await res.json() rejects: the body is not valid JSON.
ManifestJsonRejects ==
    /\ pc = "awaitJson"
    /\ manifest' = "invalid"
    /\ Throw
    /\ UNCHANGED << variant, data, items, requests, pending, resp, withHash,
                    outOfOrder, files, setFilesCalls >>

\* The mutant of ChecksumUrls that fetches the checksum of the first item
\* only.
ChecksumUrlsFirstOnly(its) ==
    [i \in 1..(IF its = <<>> THEN 0 ELSE 1) |-> its[i].url \o ".sha256"]

\* The checksum URLs of the items, in the order of items.map.
ChecksumUrls(its) == [i \in 1..Len(its) |-> its[i].url \o ".sha256"]

\* await res.json() fulfils with d.  The JSON value null makes
\* Object.entries(data) / data.map throw a TypeError.  A manifest is
\* normalized, and items.map issues one checksum fetch per item before
\* Promise.all is awaited.
ManifestJsonFulfils(d) ==
    /\ pc = "awaitJson"
    /\ manifest' = "parsed"
    /\ data' = d
    /\ IF d.shape = "null"
       THEN /\ Throw
            /\ UNCHANGED << items, requests, pending, resp, withHash >>
       ELSE /\ items' = Normalize(variant, d)
            /\ requests' = requests \o ChecksumUrls(items')
            /\ pending' = 1..Len(items')
            /\ resp' = [i \in 1..Len(items') |-> Unsettled]
            /\ withHash' = [i \in 1..Len(items') |-> Hole]
            /\ pc' = "awaitAll"
            /\ UNCHANGED loading
    /\ UNCHANGED << variant, outOfOrder, files, setFilesCalls >>

\* The slots of withHash that are filled, in index order.
RECURSIVE Filled(_)
Filled(arr) ==
    IF arr = <<>> THEN <<>>
    ELSE IF arr[Len(arr)] = Hole THEN Filled(SubSeq(arr, 1, Len(arr) - 1))
    ELSE Filled(SubSeq(arr, 1, Len(arr) - 1)) \o <<arr[Len(arr)]>>

\* The mutant of ChecksumSettles without the inner try/catch: a rejected
\* checksum fetch rejects Promise.all, and the exception leaves the outer
\* try block while the other fetches are in flight.
ChecksumSettlesNoCatch(i, r) ==
    /\ pc = "awaitAll"
    /\ i \in pending
    /\ resp' = [resp EXCEPT ![i] = r]
    /\ pending' = pending \ {i}
    /\ outOfOrder' = (outOfOrder \/ \E j \in pending : j < i)
    /\ IF r.settled = "rejected"
       THEN Throw /\ UNCHANGED withHash
       ELSE /\ withHash' = [withHash EXCEPT ![i] = WithSha256(items[i], r)]
            /\ UNCHANGED << pc, loading >>
    /\ UNCHANGED << variant, manifest, data, items, requests, files, setFilesCalls >>

\* The mutant of ChecksumSettles that shows each record as soon as its
\* checksum is known.
ChecksumSettlesProgressive(i, r) ==
    /\ pc = "awaitAll"
    /\ i \in pending
    /\ resp' = [resp EXCEPT ![i] = r]
    /\ withHash' = [withHash EXCEPT ![i] = WithSha256(items[i], r)]
    /\ pending' = pending \ {i}
    /\ outOfOrder' = (outOfOrder \/ \E j \in pending : j < i)
    /\ files' = Filled(withHash')
    /\ setFilesCalls' = setFilesCalls + 1
    /\ UNCHANGED << variant, pc, manifest, data, items, requests, loading >>

\* The mutant of ChecksumSettles that collects the values in the order of
\* completion: the value goes to the first free slot.
ChecksumSettlesCompletionOrder(i, r) ==
    /\ pc = "awaitAll"
    /\ i \in pending
    /\ resp' = [resp EXCEPT ![i] = r]
    /\ LET slot == CHOOSE k \in 1..Len(withHash) :
                       /\ withHash[k] = Hole
                       /\ \A j \in 1..(k - 1) : withHash[j] # Hole
       IN  withHash' = [withHash EXCEPT ![slot] = WithSha256(items[i], r)]
    /\ pending' = pending \ {i}
    /\ outOfOrder' = (outOfOrder \/ \E j \in pending : j < i)
    /\ UNCHANGED << variant, pc, manifest, data, items, requests, files, loading,
                    setFilesCalls >>

\* The mutant of ChecksumSettles with a deadline: when one checksum fetch
\* settles, the fetches still in flight are given up and their records get
\* "N/A".
ChecksumSettlesDeadline(i, r) ==
    /\ pc = "awaitAll"
    /\ i \in pending
    /\ resp' = [resp EXCEPT ![i] = r]
    /\ withHash' = [j \in 1..Len(items) |->
                       IF j = i THEN WithSha256(items[i], r)
                       ELSE IF j \in pending THEN WithSha256(items[j], Rejected)
                       ELSE withHash[j]]
    /\ pending' = {}
    /\ outOfOrder' = (outOfOrder \/ \E j \in pending : j < i)
    /\ UNCHANGED << variant, pc, manifest, data, items, requests, files, loading,
                    setFilesCalls >>

\* The checksum fetch of items[i] settles with r: the callback of items.map
\* returns, and Promise.all keeps its value at index i.
ChecksumSettles(i, r) ==
    /\ pc = "awaitAll"
    /\ i \in pending
    /\ resp' = [resp EXCEPT ![i] = r]
    /\ withHash' = [withHash EXCEPT ![i] = WithSha256(items[i], r)]
    /\ pending' = pending \ {i}
    /\ outOfOrder' = (outOfOrder \/ \E j \in pending : j < i)
    /\ UNCHANGED << variant, pc, manifest, data, items, requests, files, loading,
                    setFilesCalls >>

\* Promise.all fulfils once every callback has returned: withHash is sorted
\* in place (in the variants that sort), setFiles is called with it, and
\* finally { setLoading(false); } runs.
PromiseAllFulfils ==
    /\ pc = "awaitAll"
    /\ pending = {}
    /\ withHash' = Sorted(variant, withHash)
    /\ files' = withHash'
    /\ setFilesCalls' = setFilesCalls + 1
    /\ loading' = FALSE
    /\ pc' = "done"
    /\ UNCHANGED << variant, manifest, data, items, requests, pending, resp,
                    outOfOrder >>

\* A step of the OpenStreetMap effect leaves the time-zone section and the
\* view as they are.
OsmFrame == UNCHANGED << tzRest, tzLoading, viewAlive, rowVars >>

\* The OpenStreetMap section alone: the time-zone effect and the view are
\* left as they are at mount.
Next ==
    \/ StartEffect /\ OsmFrame
    \/ ManifestFetchRejects /\ OsmFrame
    \/ ManifestFetchFulfils /\ OsmFrame
    \/ ManifestJsonRejects /\ OsmFrame
    \/ pc = "awaitJson" /\ \E d \in JsonBodies(variant) :
           ManifestJsonFulfils(d) /\ OsmFrame
    \/ \E i \in pending, r \in Responses : ChecksumSettles(i, r) /\ OsmFrame
    \/ PromiseAllFulfils /\ OsmFrame

Spec == Init /\ [][Next]_vars

(* ------------------------------------------------------------------ *)
(* The time-zone load sequence ("planet" and "osmtz" variants)        *)
(* ------------------------------------------------------------------ *)

\* The variants that carry the time-zone section.
TzVariants == {"planet", "osmtz"}

\* const baseUrl = "https://download.openplanetdata.com/tz/planet/..."
TzBaseUrl(v) ==
    IF v = "planet"
    THEN Base \o "tz/planet/geoparquet/v1/planet-latest.tz.parquet"
    ELSE Base \o "tz/planet/geoparquet/planet-latest.tz.parquet"

\* kind: "PARQUET" / kind: "geoparquet"
TzKind(v) == IF v = "planet" THEN "PARQUET" ELSE "geoparquet"

\* The record handed to setTzFile.
TzRecord(v, meta, sha) ==
    [created |-> meta.created,
     filename |-> OrEmpty(SplitPop(TzBaseUrl(v), "/")),
     kind |-> TzKind(v),
     size |-> meta.size,
     sha256 |-> sha,
     url |-> TzBaseUrl(v)]

\* The mutant of TzFinally that clears the flag of the other section.
TzFinallyOtherFlag ==
    /\ loading' = FALSE
    /\ tzLoading' = tzLoading

\* finally { setTzLoading(false); }
TzFinally ==
    /\ tzLoading' = FALSE
    /\ loading' = loading

\* The time-zone effect, which only the variants in TzVariants have, runs
\* once after mount and issues the ".metadata" fetch.
TzStartEffect ==
    /\ variant \in TzVariants
    /\ tzpc = "mounted"
    /\ tzRequests' = << TzBaseUrl(variant) \o ".metadata" >>
    /\ tzMeta' = "pending"
    /\ tzpc' = "awaitMeta"
    /\ UNCHANGED << tzData, tzResp, tzFile, tzLoading, loading >>

\* The mutant of TzMetaRejects that leaves the try block without running the
\* finally clause.
TzMetaRejectsNoFinally(why) ==
    /\ tzpc = "awaitMeta"
    /\ tzMeta' = why
    /\ tzpc' = "done"
    /\ UNCHANGED << tzData, tzResp, tzRequests, tzFile, tzLoading, loading >>

\* await fetch(`${baseUrl}.metadata`).then(r => r.json()) rejects: a network
\* error ("rejected") or a body that is not valid JSON ("invalid").  The
\* exception leaves the try block.
TzMetaRejects(why) ==
    /\ tzpc = "awaitMeta"
    /\ tzMeta' = why
    /\ TzFinally
    /\ tzpc' = "done"
    /\ UNCHANGED << tzData, tzResp, tzRequests, tzFile >>

\* The mutant of TzMetaFulfils that fetches the ".sha256" companion twice.
TzMetaFulfilsTwice(m) ==
    /\ tzpc = "awaitMeta"
    /\ tzMeta' = "parsed"
    /\ tzData' = m
    /\ tzRequests' = tzRequests \o << TzBaseUrl(variant) \o ".sha256",
                                      TzBaseUrl(variant) \o ".sha256" >>
    /\ tzpc' = "awaitSha"
    /\ UNCHANGED << tzResp, tzFile, tzLoading, loading >>

\* The ".metadata" chain fulfils with m; the ".sha256" fetch is issued.
TzMetaFulfils(m) ==
    /\ tzpc = "awaitMeta"
    /\ tzMeta' = "parsed"
    /\ tzData' = m
    /\ tzRequests' = Append(tzRequests, TzBaseUrl(variant) \o ".sha256")
    /\ tzpc' = "awaitSha"
    /\ UNCHANGED << tzResp, tzFile, tzLoading, loading >>

\* The mutant of TzShaSettles without the inner try/catch: a ".sha256"
\* fetch that rejects leaves the try block and setTzFile is not called.
TzShaSettlesNoCatch(r) ==
    /\ tzpc = "awaitSha"
    /\ tzResp' = r
    /\ IF tzData.shape = "null" \/ r.settled = "rejected"
       THEN tzFile' = tzFile
       ELSE tzFile' = TzRecord(variant, tzData, ParseDigest(r.body))
    /\ TzFinally
    /\ tzpc' = "done"
    /\ UNCHANGED << tzMeta, tzData, tzRequests >>

\* The ".sha256" chain settles with r: sha is the parsed digest, or "N/A"
\* after a rejection; setTzFile is called, unless meta is null and reading
\* meta.created throws; finally { setTzLoading(false); } runs.
TzShaSettles(r) ==
    /\ tzpc = "awaitSha"
    /\ tzResp' = r
    /\ LET sha == IF r.settled = "rejected" THEN NA ELSE ParseDigest(r.body)
       IN  IF tzData.shape = "null"
           THEN tzFile' = tzFile
           ELSE tzFile' = TzRecord(variant, tzData, sha)
    /\ TzFinally
    /\ tzpc' = "done"
    /\ UNCHANGED << tzMeta, tzData, tzRequests >>

\* The mutant of Teardown in which the view's teardown aborts the load
\* sequences.
TeardownAborts ==
    /\ viewAlive
    /\ viewAlive' = FALSE
    /\ pc' = "done"
    /\ pending' = {}
    /\ tzpc' = "done"
    /\ UNCHANGED << variant, manifest, data, items, requests, resp, withHash,
                    outOfOrder, files, loading, setFilesCalls,
                    tzMeta, tzData, tzResp, tzRequests, tzFile, tzLoading,
                    rowVars >>

\* The view is torn down.  Neither effect returns a cleanup function, so
\* nothing else changes.
Teardown ==
    /\ viewAlive
    /\ viewAlive' = FALSE
    /\ UNCHANGED << osmRest, loading, tzRest, tzLoading, rowVars >>

(* ------------------------------------------------------------------ *)
(* The whole page                                                     *)
(* ------------------------------------------------------------------ *)

\* The largest number of entries of a manifest when both sections run.
MaxPageEntries == 1

\* The number of entries of a parsed manifest body.
RECURSIVE CountEntries(_)
CountEntries(entries) ==
    IF entries = <<>> THEN 0
    ELSE Len(Head(entries).arr) + CountEntries(Tail(entries))

ManifestSize(d) == IF d.shape = "array" THEN Len(d.v) ELSE CountEntries(d.v)

\* The manifests met when both sections run.
PageJsonBodies(v) == { d \in JsonBodies(v) : ManifestSize(d) <= MaxPageEntries }

\* The outcomes of a checksum fetch met when both sections run.
PageResponses ==
    { Rejected, Fulfilled(200, "deadbeef  a.pbf\n"), Fulfilled(404, "Not Found") }

\* A step of the time-zone effect leaves the OpenStreetMap section and the
\* view as they are.
TzFrame == UNCHANGED << osmRest, viewAlive, rowVars >>

OsmPageStep ==
    \/ StartEffect /\ OsmFrame
    \/ ManifestFetchRejects /\ OsmFrame
    \/ ManifestFetchFulfils /\ OsmFrame
    \/ ManifestJsonRejects /\ OsmFrame
    \/ pc = "awaitJson" /\ \E d \in PageJsonBodies(variant) :
           ManifestJsonFulfils(d) /\ OsmFrame
    \/ \E i \in pending, r \in PageResponses : ChecksumSettles(i, r) /\ OsmFrame
    \/ PromiseAllFulfils /\ OsmFrame

TzStep ==
    \/ TzStartEffect /\ TzFrame
    \/ \E why \in {"rejected", "invalid"} : TzMetaRejects(why) /\ TzFrame
    \/ \E m \in TzMetaBodies : TzMetaFulfils(m) /\ TzFrame
    \/ \E r \in PageResponses : TzShaSettles(r) /\ TzFrame

PageNext == OsmPageStep \/ TzStep \/ Teardown

\* The page of every variant: its sections and the view's teardown, in
\* every interleaving.
PageSpec == Init /\ [][PageNext]_vars

\* PageSpec when every issued fetch settles and every continuation runs;
\* nothing obliges the view to be torn down.
PageLive == PageSpec /\ WF_vars(OsmPageStep) /\ WF_vars(TzStep)

(* ------------------------------------------------------------------ *)
(* A row of the downloads table: HashRow                              *)
(* ------------------------------------------------------------------ *)

\* The variants whose rows offer the rclone command.
RcloneVariants == {"planet", "osmtz"}

\* The string pat occurs in s at position i.
StartsAt(s, pat, i) ==
    /\ i + Len(pat) - 1 <= Len(s)
    /\ SubSeq(s, i, i + Len(pat) - 1) = pat

\* String.prototype.indexOf(pat, from) for a string pat: the first position
\* >= i at which pat occurs in s, 0 when there is none.
RECURSIVE IndexOfString(_, _, _)
IndexOfString(s, pat, i) ==
    IF i + Len(pat) - 1 > Len(s) THEN 0
    ELSE IF StartsAt(s, pat, i) THEN i
    ELSE IndexOfString(s, pat, i + 1)

\* The mutant of Replace that replaces nothing.
ReplaceNothing(s, pat, rep) == s

\* s.replace(pat, rep) with a string pattern: the first occurrence of pat
\* in s, wherever it is, is replaced by rep; s itself when pat does not
\* occur.
Replace(s, pat, rep) ==
    LET k == IndexOfString(s, pat, 1)
    IN  IF k = 0 THEN s
        ELSE SubSeq(s, 1, k - 1) \o rep \o SubSeq(s, k + Len(pat), Len(s))

\* Array.prototype.join(sep)
RECURSIVE Join(_, _)
Join(lines, sep) ==
    IF lines = <<>> THEN ""
    ELSE IF Len(lines) = 1 THEN lines[1]
    ELSE lines[1] \o sep \o Join(Tail(lines), sep)

\* The lines of the rclone command for a path.
RcloneLines(v, path) ==
    << "rclone copy \\",
       "    --http-url https://download.openplanetdata.com \\",
       "    :http:" \o path \o " . \\",
       "    --multi-thread-cutoff 0 \\",
       IF v = "planet" THEN "    --multi-thread-streams 768 \\"
                       ELSE "    --multi-thread-streams 64 \\",
       IF v = "planet" THEN "    --multi-thread-chunk-size 120M \\"
                       ELSE "    --multi-thread-chunk-size 512M \\",
       "    --transfers 1 --progress" >>

\* const path = file.url.replace("https://download.openplanetdata.com/", "");
\* const rcloneCmd = [...].join("\n");
RcloneCmd(v, file) ==
    Join(RcloneLines(v, Replace(file.url, "https://download.openplanetdata.com/", "")),
         "\n")

\* The page and the other rows are as they are.
RowFrame == UNCHANGED << osmRest, loading, tzRest, tzLoading, viewAlive >>

\* files.map(f => <HashRow key={f.url} file={f} />): the rows mount when
\* files is set; the model follows the k-th.
MountRow(k) ==
    /\ pc = "done"
    /\ row = 0
    /\ k \in 1..Len(files)
    /\ row' = k
    /\ UNCHANGED << copied, rcloneOpen, rcloneCopied, copiedTimers, rcloneTimers,
                    now, clipboard, lastCall >>

\* onClick={() => setRcloneOpen(true)}
ShowRclone ==
    /\ row # 0
    /\ variant \in RcloneVariants
    /\ ~rcloneOpen
    /\ rcloneOpen' = TRUE
    /\ UNCHANGED << row, copied, rcloneCopied, copiedTimers, rcloneTimers, now,
                    clipboard, lastCall >>

\* onClick={() => setRcloneOpen(false)}, the Close button of the dialog.
CloseRclone ==
    /\ rcloneOpen
    /\ rcloneOpen' = FALSE
    /\ UNCHANGED << row, copied, rcloneCopied, copiedTimers, rcloneTimers, now,
                    clipboard, lastCall >>

\* The largest number of timers of one handler that are pending at a time.
MaxTimers == 2

\* The delay of setTimeout(() => setCopied(false), 1500), in milliseconds.
ResetDelay == 1500

\* The clock is read at every third of the delay.
ClockStep == ResetDelay \div 3

\* The number of clock steps a run is followed for.
MaxTicks == 3

\* !file.sha256 || file.sha256 === "N/A": the first line of copyHash.
NoChecksum(file) ==
    \/ "sha256" \notin DOMAIN file
    \/ file.sha256 = ""
    \/ file.sha256 = NA

\* {file.sha256 && file.sha256 !== "N/A" && (<button onClick={copyHash} ...>)}
CopyButtonRendered(file) ==
    /\ "sha256" \in DOMAIN file
    /\ file.sha256 # ""
    /\ file.sha256 # NA

\* The mutant of CopyHashReturns that writes the checksum all the same.
CopyHashReturnsWrites ==
    /\ row # 0
    /\ NoChecksum(files[row])
    /\ clipboard' = [written |-> TRUE, text |-> files[row].sha256, by |-> "copyHash"]
    /\ lastCall' = [handler |-> "copyHash", outcome |-> "returned"]
    /\ UNCHANGED << row, copied, rcloneOpen, rcloneCopied, copiedTimers,
                    rcloneTimers, now >>

\* copyHash for a file without a usable checksum:
\*     if (!file.sha256 || file.sha256 === "N/A") return;
\* The button that calls copyHash is rendered for a usable checksum only;
\* this is the handler for any other call.
CopyHashReturns ==
    /\ row # 0
    /\ NoChecksum(files[row])
    /\ lastCall' = [handler |-> "copyHash", outcome |-> "returned"]
    /\ UNCHANGED << row, copied, rcloneOpen, rcloneCopied, copiedTimers,
                    rcloneTimers, now, clipboard >>

\* copyHash, from the copy button of the row, when the clipboard write
\* fulfils:
\*     await navigator.clipboard.writeText(file.sha256);
\*     setCopied(true);
\*     setTimeout(() => setCopied(false), 1500);
\* The timer of an earlier call is not cleared.
CopyHash ==
    /\ row # 0
    /\ CopyButtonRendered(files[row])
    /\ ~NoChecksum(files[row])
    /\ Len(copiedTimers) < MaxTimers
    /\ clipboard' = [written |-> TRUE, text |-> files[row].sha256, by |-> "copyHash"]
    /\ copied' = TRUE
    /\ copiedTimers' = Append(copiedTimers, now + ResetDelay)
    /\ lastCall' = [handler |-> "copyHash", outcome |-> "fulfilled"]
    /\ UNCHANGED << row, rcloneOpen, rcloneCopied, rcloneTimers, now >>

\* The mutant of CopyHashRejects that goes on after the await.
CopyHashRejectsMarksCopied ==
    /\ row # 0
    /\ CopyButtonRendered(files[row])
    /\ ~NoChecksum(files[row])
    /\ Len(copiedTimers) < MaxTimers
    /\ copied' = TRUE
    /\ copiedTimers' = Append(copiedTimers, now + ResetDelay)
    /\ lastCall' = [handler |-> "copyHash", outcome |-> "rejected"]
    /\ UNCHANGED << row, rcloneOpen, rcloneCopied, rcloneTimers, now, clipboard >>

\* copyHash when the clipboard write rejects: the await throws, the handler
\* has no try, and the lines after the await do not run.
CopyHashRejects ==
    /\ row # 0
    /\ CopyButtonRendered(files[row])
    /\ ~NoChecksum(files[row])
    /\ lastCall' = [handler |-> "copyHash", outcome |-> "rejected"]
    /\ UNCHANGED << row, copied, rcloneOpen, rcloneCopied, copiedTimers,
                    rcloneTimers, now, clipboard >>

\* copyRclone, from the Copy button of the dialog, when the clipboard write
\* fulfils:
\*     await navigator.clipboard.writeText(rcloneCmd);
\*     setRcloneCopied(true);
\*     setTimeout(() => setRcloneCopied(false), 1500);
CopyRclone ==
    /\ rcloneOpen
    /\ Len(rcloneTimers) < MaxTimers
    /\ clipboard' = [written |-> TRUE, text |-> RcloneCmd(variant, files[row]),
                     by |-> "copyRclone"]
    /\ rcloneCopied' = TRUE
    /\ rcloneTimers' = Append(rcloneTimers, now + ResetDelay)
    /\ lastCall' = [handler |-> "copyRclone", outcome |-> "fulfilled"]
    /\ UNCHANGED << row, copied, rcloneOpen, copiedTimers, now >>

\* copyRclone when the clipboard write rejects: the handler ends at the
\* await.
CopyRcloneRejects ==
    /\ rcloneOpen
    /\ lastCall' = [handler |-> "copyRclone", outcome |-> "rejected"]
    /\ UNCHANGED << row, copied, rcloneOpen, rcloneCopied, copiedTimers,
                    rcloneTimers, now, clipboard >>

\* The timers that are due: setTimeout runs its callback once its delay has
\* passed, the timers of one delay in the order they were set.
Due(timers) == timers # <<>> /\ Head(timers) <= now

\* A timer of copyHash fires: setCopied(false).
CopiedTimerFires ==
    /\ Due(copiedTimers)
    /\ copied' = FALSE
    /\ copiedTimers' = Tail(copiedTimers)
    /\ UNCHANGED << row, rcloneOpen, rcloneCopied, rcloneTimers, now, clipboard,
                    lastCall >>

\* A timer of copyRclone fires: setRcloneCopied(false).
RcloneTimerFires ==
    /\ Due(rcloneTimers)
    /\ rcloneCopied' = FALSE
    /\ rcloneTimers' = Tail(rcloneTimers)
    /\ UNCHANGED << row, copied, rcloneOpen, copiedTimers, now, clipboard,
                    lastCall >>

\* Time passes while no timer is due.
Tick ==
    /\ row # 0
    /\ now < MaxTicks * ClockStep
    /\ ~Due(copiedTimers)
    /\ ~Due(rcloneTimers)
    /\ now' = now + ClockStep
    /\ UNCHANGED << row, copied, rcloneOpen, rcloneCopied, copiedTimers,
                    rcloneTimers, clipboard, lastCall >>

\* An entry of the category-keyed manifest whose url holds the base of the
\* download host behind another host: the file as a web archive serves it.
ArchivedEntry ==
    [url |-> "https://web.archive.org/web/2024/https://download.openplanetdata.com/osm/planet.pbf",
     size |-> JSNum(5), created |-> 1700000004]

\* The manifests met when a row is followed: a row depends on its own file
\* alone, so those of one entry at most.
RowJsonBodies(v) ==
    { d \in JsonBodies(v) : ManifestSize(d) <= 1 }
    \cup IF v = "planet" THEN {}
         ELSE { [shape |-> "object",
                 v |-> << [key |-> "pbf", arr |-> << ArchivedEntry >>] >>] }

\* The outcomes of a checksum fetch when a row is followed: those of the
\* page, and a companion file that is empty.
RowResponses == PageResponses \cup { Fulfilled(200, "") }

OsmRowStep ==
    \/ StartEffect /\ OsmFrame
    \/ ManifestFetchRejects /\ OsmFrame
    \/ ManifestFetchFulfils /\ OsmFrame
    \/ ManifestJsonRejects /\ OsmFrame
    \/ pc = "awaitJson" /\ \E d \in RowJsonBodies(variant) :
           ManifestJsonFulfils(d) /\ OsmFrame
    \/ \E i \in pending, r \in RowResponses : ChecksumSettles(i, r) /\ OsmFrame
    \/ PromiseAllFulfils /\ OsmFrame

RowStep ==
    \/ \E k \in 1..Len(files) : MountRow(k) /\ RowFrame
    \/ ShowRclone /\ RowFrame
    \/ CloseRclone /\ RowFrame
    \/ CopyHashReturns /\ RowFrame
    \/ CopyHash /\ RowFrame
    \/ CopyHashRejects /\ RowFrame
    \/ CopyRclone /\ RowFrame
    \/ CopyRcloneRejects /\ RowFrame
    \/ CopiedTimerFires /\ RowFrame
    \/ RcloneTimerFires /\ RowFrame
    \/ Tick /\ RowFrame

\* The steps of the rclone dialog of the row.
RcloneStep ==
    \/ \E k \in 1..Len(files) : MountRow(k) /\ RowFrame
    \/ ShowRclone /\ RowFrame
    \/ CloseRclone /\ RowFrame
    \/ CopyRclone /\ RowFrame
    \/ CopyRcloneRejects /\ RowFrame
    \/ RcloneTimerFires /\ RowFrame
    \/ Tick /\ RowFrame

RcloneNext == OsmRowStep \/ RcloneStep

\* The OpenStreetMap section and the rclone dialog of one of its rows.
RcloneSpec == Init /\ [][RcloneNext]_vars

RowNext == OsmRowStep \/ RowStep

\* The OpenStreetMap section and one of its rows.
RowSpec == Init /\ [][RowNext]_vars

(* ------------------------------------------------------------------ *)
(* Vocabulary of the properties                                       *)
(* ------------------------------------------------------------------ *)

\* The manifest was fetched and parsed into a manifest of the variant's shape.
ManifestLoaded == manifest = "parsed" /\ data.shape \in {"object", "array"}

\* The load sequence went through the whole try block.
Displayed == pc = "done" /\ ManifestLoaded

\* The digest a record is due from the outcome r of its own checksum
\* fetch: the sentinel after a rejection, else what the body parses to.
DueSha256(r) == IF r.settled = "rejected" THEN NA ELSE ParseDigest(r.body)

\* rec is the item it with the digest sha added and nothing else changed.
IsEnrichmentOf(rec, it, sha) ==
    /\ DOMAIN rec = DOMAIN it \cup {"sha256"}
    /\ \A f \in DOMAIN it \ {"sha256"} : rec[f] = it[f]
    /\ rec.sha256 = sha

\* The bijections between the positions of the displayed list and the
\* indices of the items.
Matchings == Permutations(1..Len(items))

\* The entries of a parsed manifest, category after category.
RECURSIVE ConcatArrs(_)
ConcatArrs(entries) ==
    IF entries = <<>> THEN <<>>
    ELSE Head(entries).arr \o ConcatArrs(Tail(entries))

SourceEntries(d) == IF d.shape = "array" THEN d.v ELSE ConcatArrs(d.v)

\* The number of records of the sequence s created at c; the entries of the
\* model differ in created, which normalization and enrichment copy.
Occurrences(s, c) == Cardinality({ i \in DOMAIN s : s[i].created = c })

\* A lowercase hexadecimal digest: not empty, every character a hex digit.
IsHexDigest(s) ==
    /\ s # ""
    /\ \A i \in 1..Len(s) : IndexOf("0123456789abcdef", CharAt(s, i), 1) # 0

\* The first white-space-delimited token of a body.
RECURSIVE TokenPrefix(_)
TokenPrefix(s) ==
    IF s = "" \/ CharAt(s, 1) \in WhiteSpace THEN ""
    ELSE CharAt(s, 1) \o TokenPrefix(SubSeq(s, 2, Len(s)))

FirstToken(body) == TokenPrefix(TrimStart(body))

\* A companion body that does not start with a digest.
Malformed(body) == ~IsHexDigest(FirstToken(body))

\* The extension of the claims: the substring of the file name behind its
\* last '.', the whole name when it has no '.'.
Extension(rec) == SplitPop(rec.filename, ".")

\* The sequence s is in ascending order of extension.
AscendingByExtension(s) ==
    \A k \in 1..(Len(s) - 1) :
        LocaleCompare(Extension(s[k]), Extension(s[k + 1])) <= 0

(* ------------------------------------------------------------------ *)
(* C1                                                                 *)
(* ------------------------------------------------------------------ *)

\* C1: when the manifest fetch rejects or its body is not valid JSON, no
\* checksum fetch is issued (the manifest request is the only request),
\* files stays empty and is never written, and loading, true since mount,
\* is false.
C1_ManifestFailureFailsClosed ==
    manifest \in {"rejected", "invalid"} =>
        /\ requests = <<ManifestUrl(variant)>>
        /\ pending = {}
        /\ files = <<>>
        /\ setFilesCalls = 0
        /\ loading = FALSE

C1_Witness ==
    /\ manifest = "invalid"
    /\ pc = "done"
    /\ loading = FALSE
    /\ files = <<>>

(* ------------------------------------------------------------------ *)
(* C2                                                                 *)
(* ------------------------------------------------------------------ *)

\* C2: whatever set of checksum fetches rejects, the enriched list has one
\* record per item; at the moment Promise.all fulfils, record i is item i
\* with "N/A" when its own fetch rejected and with the digest parsed from
\* its own body otherwise, whatever happened to its siblings; and the
\* displayed list holds exactly these records.
C2_FailureIsolation ==
    /\ (pc = "awaitAll" /\ pending = {}) =>
           /\ Len(withHash) = Len(items)
           /\ \A i \in 1..Len(items) :
                  IsEnrichmentOf(withHash[i], items[i], DueSha256(resp[i]))
    /\ Displayed =>
           /\ Len(files) = Len(items)
           /\ \E m \in Matchings :
                  \A k \in 1..Len(files) :
                      IsEnrichmentOf(files[k], items[m[k]], DueSha256(resp[m[k]]))

C2_Witness ==
    /\ Displayed
    /\ Len(files) = 2
    /\ \E i, j \in 1..Len(items) :
           /\ resp[i].settled = "rejected"
           /\ resp[j].settled = "fulfilled"
           /\ resp[j].body = "deadbeef  a.pbf\n"
    /\ \E k, l \in 1..Len(files) :
           /\ files[k].sha256 = NA
           /\ files[l].sha256 = "deadbeef"

(* ------------------------------------------------------------------ *)
(* C3                                                                 *)
(* ------------------------------------------------------------------ *)

\* C3: a checksum fetch that completes with a status other than 200, or
\* with a body that does not start with a digest, gives its record the
\* sentinel "N/A".
C3_NonOkOrMalformedGivesNA ==
    pc = "awaitAll" =>
        \A i \in (1..Len(items)) \ pending :
            (/\ resp[i].settled = "fulfilled"
             /\ (resp[i].status # 200 \/ Malformed(resp[i].body)))
                => withHash[i].sha256 = NA

(* ------------------------------------------------------------------ *)
(* C4                                                                 *)
(* ------------------------------------------------------------------ *)

\* C4: once loading is false, every displayed record has a sha256 that is
\* a non-empty string: a digest or "N/A", never the empty string or absent.
C4_DisplayedShaNeverEmpty ==
    loading = FALSE =>
        \A k \in 1..Len(files) :
            /\ "sha256" \in DOMAIN files[k]
            /\ files[k].sha256 # ""

(* ------------------------------------------------------------------ *)
(* C5                                                                 *)
(* ------------------------------------------------------------------ *)

\* C5: loading is false only when the manifest fetch (and the read of its
\* body) has settled and no checksum fetch of the sequence is in flight.
C5_LoadingUntilAllSettled ==
    loading = FALSE =>
        /\ manifest \in {"rejected", "invalid", "parsed"}
        /\ pending = {}
        /\ \A i \in 1..Len(resp) : resp[i].settled \in {"rejected", "fulfilled"}

C5_Witness ==
    /\ loading = FALSE
    /\ Len(items) = 2
    /\ resp[1].settled = "rejected"
    /\ resp[2].settled = "fulfilled"

(* ------------------------------------------------------------------ *)
(* C6                                                                 *)
(* ------------------------------------------------------------------ *)

\* C6: files is empty or the complete enriched list -- one record per
\* manifest entry, each carrying sha256, written by the single setFiles
\* call at the end of the sequence; setFiles is called at most once.
C6_NoPartialResult ==
    /\ setFilesCalls <= 1
    /\ \/ files = <<>>
       \/ /\ Displayed
          /\ setFilesCalls = 1
          /\ Len(files) = Len(SourceEntries(data))
          /\ \A k \in 1..Len(files) : "sha256" \in DOMAIN files[k]
          /\ \E m \in Matchings :
                 \A k \in 1..Len(files) : files[k].url = items[m[k]].url

C6_Witness ==
    /\ Displayed
    /\ setFilesCalls = 1
    /\ Len(files) = 2
    /\ files[1].url # files[2].url

(* ------------------------------------------------------------------ *)
(* C7                                                                 *)
(* ------------------------------------------------------------------ *)

\* C7: for a manifest of either shape, the normalized items, and the
\* records finally displayed, are as many as the entries of the manifest,
\* and each entry occurs among them as often as in the manifest.
C7_OneRecordPerEntry ==
    ManifestLoaded =>
        LET src == SourceEntries(data)
        IN  /\ Len(items) = Len(src)
            /\ \A i \in 1..Len(src) :
                   Occurrences(items, src[i].created)
                       = Occurrences(src, src[i].created)
            /\ Displayed =>
                   /\ Len(files) = Len(src)
                   /\ \A i \in 1..Len(src) :
                          Occurrences(files, src[i].created)
                              = Occurrences(src, src[i].created)

C7_Witness ==
    /\ Displayed
    /\ data.shape = "object"
    /\ Len(data.v) = 2
    /\ Len(data.v[1].arr) = 1
    /\ Len(data.v[2].arr) = 1
    /\ Len(files) = 2

(* ------------------------------------------------------------------ *)
(* C8                                                                 *)
(* ------------------------------------------------------------------ *)

\* C8: the size of every normalized record is a number, and a non-negative
\* integer, whether the manifest gave it as a number or a numeric string.
C8_SizeIsNonNegativeInteger ==
    \A i \in 1..Len(items) :
        /\ items[i].size.type = "number"
        /\ ~items[i].size.nan
        /\ items[i].size.num >= 0

(* ------------------------------------------------------------------ *)
(* C9                                                                 *)
(* ------------------------------------------------------------------ *)

\* C9, as claimed: in every page variant the displayed list is in
\* ascending order of extension.
C9_SortedInEveryVariant ==
    pc = "done" => AscendingByExtension(files)

\* C9, amended: in the two variants that sort ("planet", "osmtz") the
\* displayed list is in ascending order of extension, whatever the order of
\* the manifest.
C9_SortedInSortingVariants ==
    (pc = "done" /\ variant \in SortingVariants) => AscendingByExtension(files)

C9_Witness ==
    /\ Displayed
    /\ variant \in SortingVariants
    /\ Len(files) = 2
    /\ ~AscendingByExtension(items)
    /\ AscendingByExtension(files)

(* ------------------------------------------------------------------ *)
(* C10                                                                *)
(* ------------------------------------------------------------------ *)

C11_ChecksumFanOut ==
    ManifestLoaded =>
        /\ Len(requests) = 1 + Len(items)
        /\ \A i \in 1..Len(items) : requests[1 + i] = items[i].url \o ".sha256"
        /\ Len(resp) = Len(items)
        /\ pending \subseteq 1..Len(items)
        /\ \A i \in 1..Len(items) : (i \in pending) <=> (resp[i] = Unsettled)
        /\ pending # {} => (pc = "awaitAll" /\ loading = TRUE /\ setFilesCalls = 0)
        /\ pc = "done" => pending = {}

C11_Witness ==
    /\ pc = "awaitAll"
    /\ Len(items) = 2
    /\ Len(requests) = 3
    /\ resp[1] = Rejected
    /\ pending = {2}
    /\ loading = TRUE

(* ------------------------------------------------------------------ *)
(* C12                                                                *)
(* ------------------------------------------------------------------ *)

\* The requests of the two sequences so far: the manifest once, one
\* companion per record, the time-zone ".metadata" and ".sha256" once each;
\* and every failure stands replaced by its fallback.
FetchedOnce ==
    /\ Len(requests) <= 1 + Len(items)
    /\ \A k \in 1..Len(requests) :
           requests[k] = ManifestUrl(variant) <=> k = 1
    /\ \A i \in 1..Len(items) :
           Len(requests) = 1 + Len(items) /\ requests[1 + i] = items[i].url \o ".sha256"
    /\ Len(tzRequests) <= 2
    /\ \A k, l \in 1..Len(tzRequests) : tzRequests[k] = tzRequests[l] => k = l
    /\ manifest \in {"rejected", "invalid"} => (files = <<>> /\ setFilesCalls = 0)
    /\ pc = "awaitAll" =>
           \A i \in (1..Len(items)) \ pending :
               resp[i] = Rejected => withHash[i].sha256 = NA
    /\ tzMeta \in {"rejected", "invalid"} => (tzFile = NoFile /\ Len(tzRequests) = 1)
    /\ (tzResp = Rejected /\ tzFile # NoFile) => tzFile.sha256 = NA

\* A step never re-issues a fetch: an outcome that is known stays as it
\* is, a failure adds no request, the value that replaced a failure is
\* written once, and a sequence that is over issues nothing.
NeverReissued ==
    /\ \A i \in 1..Len(resp) :
           resp[i] # Unsettled =>
               /\ resp'[i] = resp[i]
               /\ pc' = "awaitAll" => withHash'[i] = withHash[i]
    /\ pc \in {"awaitAll", "done"} => requests' = requests
    /\ manifest \in {"rejected", "invalid", "parsed"} => manifest' = manifest
    /\ tzResp # Unsettled => tzResp' = tzResp
    /\ tzMeta \in {"rejected", "invalid", "parsed"} => tzMeta' = tzMeta
    /\ tzpc \in {"awaitSha", "done"} => tzRequests' = tzRequests
    /\ tzpc = "done" => tzFile' = tzFile

\* C12: within one load sequence the manifest, each record's ".sha256"
\* companion, the time-zone ".metadata" and the time-zone ".sha256" are
\* fetched at most once each; no step re-issues a fetch whose outcome is
\* known, failed or not; and each failure is replaced by its fallback (an
\* empty list, "N/A", no time-zone file) once.
C12_NoRetries == []FetchedOnce /\ [][NeverReissued]_vars

C12_Witness ==
    /\ pc = "done"
    /\ Len(items) = 1
    /\ Len(requests) = 2
    /\ resp[1] = Rejected
    /\ files[1].sha256 = NA
    /\ tzpc = "done"
    /\ tzResp = Rejected
    /\ Len(tzRequests) = 2
    /\ tzFile # NoFile
    /\ tzFile.sha256 = NA

(* ------------------------------------------------------------------ *)
(* C13                                                                *)
(* ------------------------------------------------------------------ *)

\* Every load sequence of the page has set its loading flag to false.
AllLoaded == loading = FALSE /\ (variant \in TzVariants => tzLoading = FALSE)

\* C13: when every issued fetch settles and every continuation runs, each
\* load sequence of the page -- whatever the outcomes of its manifest or
\* metadata fetch and of its checksum fetches -- reaches loading = false,
\* and from then on loading is never true again.
C13_EventuallyLoadedForGood ==
    /\ <>[]AllLoaded
    /\ [][(loading = FALSE => loading' = FALSE)
          /\ (tzLoading = FALSE => tzLoading' = FALSE)]_vars

C13_Witness ==
    /\ AllLoaded
    /\ variant \in TzVariants
    /\ manifest = "parsed"
    /\ Len(items) = 1
    /\ resp[1] = Rejected
    /\ tzMeta = "invalid"

(* ------------------------------------------------------------------ *)
(* C14                                                                *)
(* ------------------------------------------------------------------ *)

\* C14: as long as the manifest fetch (or the read of its body) has not
\* settled, and as long as any one checksum fetch has not settled -- the
\* others may all have -- the section is waiting: loading is true, files is
\* empty and setFiles was not called.  No step of the sequence gives up on
\* a fetch, so a fetch that never settles leaves the section so for ever.
C14_HungFetchStalls ==
    /\ manifest \in {"pending", "fulfilled"} =>
           (pc \in {"awaitFetch", "awaitJson"} /\ loading = TRUE /\ files = <<>>)
    /\ \A i \in 1..Len(resp) :
           resp[i] = Unsettled =>
               /\ pc = "awaitAll"
               /\ loading = TRUE
               /\ files = <<>>
               /\ setFilesCalls = 0

C14_Witness ==
    /\ pc = "awaitAll"
    /\ Len(items) = 2
    /\ resp[1] = Unsettled
    /\ resp[2] = Fulfilled(200, "deadbeef  a.pbf\n")
    /\ withHash[2].sha256 = "deadbeef"
    /\ loading = TRUE
    /\ files = <<>>

(* ------------------------------------------------------------------ *)
(* C15                                                                *)
(* ------------------------------------------------------------------ *)

\* The view was torn down while the OpenStreetMap sequence was under way.
TornDownInFlight == ~viewAlive /\ pc # "done"

\* C15: the teardown of the view changes nothing of either load sequence;
\* a sequence under way at teardown goes on as if the view were there: when
\* its manifest parses after teardown, the checksum fetches are issued, one
\* per record; when it was waiting for its checksum fetches, it still
\* calls setFiles with the enriched list; and every sequence of the page
\* runs to its end and sets its loading flag to false.
C15_NoCancellation ==
    /\ [][/\ viewAlive' # viewAlive =>
                 UNCHANGED << osmRest, loading, tzRest, tzLoading >>
          /\ (TornDownInFlight /\ pc = "awaitJson" /\ pc' = "awaitAll") =>
                 (/\ Len(requests') = 1 + Len(items')
                  /\ pending' = 1..Len(items'))
          /\ (TornDownInFlight /\ pc = "awaitAll" /\ pc' = "done") =>
                 (/\ setFilesCalls' = setFilesCalls + 1
                  /\ Len(files') = Len(items)
                  /\ loading' = FALSE)]_vars
    /\ ~viewAlive ~> (pc = "done" /\ AllLoaded)

C15_Witness ==
    /\ TornDownInFlight
    /\ pc = "awaitAll"
    /\ Len(items) = 1
    /\ pending = {1}
    /\ loading = TRUE
    /\ tzpc = "awaitSha"

(* ------------------------------------------------------------------ *)
(* C16                                                                *)
(* ------------------------------------------------------------------ *)

\* The positions of the character c in s.
PositionsOf(s, c) == { i \in 1..Len(s) : CharAt(s, i) = c }

\* The last '/'-separated segment of a url: what follows its last '/', the
\* whole url when it has no '/'.
LastSegment(url) ==
    LET slashes == PositionsOf(url, "/")
    IN  IF slashes = {} THEN url
        ELSE SubSeq(url, (CHOOSE i \in slashes : \A j \in slashes : j <= i) + 1,
                    Len(url))

\* name is the last '/'-separated segment of url: it holds no '/', and url
\* is name itself or ends with '/' and name.
IsLastSegment(name, url) ==
    /\ PositionsOf(name, "/") = {}
    /\ \/ name = url
       \/ /\ Len(url) > Len(name)
          /\ SubSeq(url, Len(url) - Len(name), Len(url)) = "/" \o name

\* The number of entries under the categories before the c-th.
RECURSIVE EntriesBefore(_, _)
EntriesBefore(entries, c) ==
    IF c <= 1 THEN 0
    ELSE EntriesBefore(entries, c - 1) + Len(entries[c - 1].arr)

\* C16: in the variants whose manifest is keyed by category, the record of
\* the j-th entry e under the c-th key k stands at the entry's place among
\* the items and has kind = k, url = e.url, filename = the last
\* '/'-separated segment of e.url -- also when e has fields of its own
\* named kind or filename -- and created and size as in e.
C16_CategoryKeyedNormalization ==
    (ManifestLoaded /\ data.shape = "object") =>
        \A c \in 1..Len(data.v) :
            \A j \in 1..Len(data.v[c].arr) :
                LET e == data.v[c].arr[j]
                    rec == items[EntriesBefore(data.v, c) + j]
                IN  /\ rec.kind = data.v[c].key
                    /\ rec.url = e.url
                    /\ IsLastSegment(rec.filename, e.url)
                    /\ rec.created = e.created
                    /\ rec.size = e.size

C16_Witness ==
    /\ ManifestLoaded
    /\ data.shape = "object"
    /\ Len(data.v) = 2
    /\ Len(data.v[1].arr) = 1
    /\ Len(data.v[2].arr) = 1
    /\ "kind" \in DOMAIN data.v[2].arr[1]
    /\ data.v[2].arr[1].kind = "own"
    /\ data.v[2].arr[1].filename = "own.txt"
    /\ items[2].kind = "gol"
    /\ items[2].filename = "planet-latest.osm.pbf"

(* ------------------------------------------------------------------ *)
(* C17                                                                *)
(* ------------------------------------------------------------------ *)

\* C17: in the variant whose manifest is an array, the record of the i-th
\* entry e has url = "https://download.openplanetdata.com/" + e.remote_path
\* + "/v" + e.remote_version + "/" + e.remote_filename, filename =
\* e.remote_filename and version = e.remote_version, and the request issued
\* for its checksum is for exactly url + ".sha256".
C17_ArrayManifestNormalization ==
    (ManifestLoaded /\ data.shape = "array") =>
        /\ Len(items) = Len(data.v)
        /\ \A i \in 1..Len(data.v) :
               LET e == data.v[i]
                   url == "https://download.openplanetdata.com/" \o e.remote_path
                              \o "/v" \o e.remote_version \o "/" \o e.remote_filename
               IN  /\ items[i].url = url
                   /\ items[i].filename = e.remote_filename
                   /\ items[i].version = e.remote_version
                   /\ requests[1 + i] = url \o ".sha256"

C17_Witness ==
    /\ ManifestLoaded
    /\ data.shape = "array"
    /\ Len(items) = 2
    /\ items[1].url = "https://download.openplanetdata.com/osm/planet/gol/v2/planet-latest.osm.gol"
    /\ items[2].url = "https://download.openplanetdata.com/osm/planet/pbf/v1/planet-latest.osm.pbf"
    /\ requests[3] = "https://download.openplanetdata.com/osm/planet/pbf/v1/planet-latest.osm.pbf.sha256"

(* ------------------------------------------------------------------ *)
(* C18                                                                *)
(* ------------------------------------------------------------------ *)

\* C18: the sha256 of a record whose checksum fetch fulfilled is the first
\* white-space-delimited token of the companion body, where white space
\* is space, tab or line feed and leading white space is skipped.
C18_ShaIsFirstToken ==
    pc = "awaitAll" =>
        \A i \in (1..Len(items)) \ pending :
            resp[i].settled = "fulfilled" =>
                withHash[i].sha256 = FirstToken(resp[i].body)

(* ------------------------------------------------------------------ *)
(* C19                                                                *)
(* ------------------------------------------------------------------ *)

\* What the OpenStreetMap section shows, given the outcomes of its own
\* fetches alone.
OsmOutcome ==
    [loading |-> pc # "done",
     files |-> IF Displayed
               THEN Sorted(variant,
                           [i \in 1..Len(items) |->
                               Spread(items[i], [sha256 |-> DueSha256(resp[i])])])
               ELSE <<>>]

\* What the time-zone section shows, given the outcomes of its own fetches
\* alone.
TzOutcome ==
    [loading |-> tzpc # "done",
     file |-> IF tzpc = "done" /\ tzMeta = "parsed" /\ tzData.shape = "object"
              THEN [created |-> tzData.created,
                    filename |-> LastSegment(TzBaseUrl(variant)),
                    kind |-> TzKind(variant),
                    size |-> tzData.size,
                    sha256 |-> DueSha256(tzResp),
                    url |-> TzBaseUrl(variant)]
              ELSE NoFile]

\* C19: in every interleaving of the two load sequences, what a section
\* shows -- its loading flag and its files or tzFile -- is determined by the
\* outcomes of its own fetches, whether the other sequence succeeded,
\* failed or hangs; and a step that writes a variable of one sequence writes
\* none of the other.
C19_SectionsIndependent ==
    /\ [](/\ loading = OsmOutcome.loading
          /\ files = OsmOutcome.files
          /\ tzLoading = TzOutcome.loading
          /\ tzFile = TzOutcome.file)
    /\ [][\/ UNCHANGED << osmRest, loading >>
          \/ UNCHANGED << tzRest, tzLoading >>]_vars

C19_Witness ==
    /\ manifest = "rejected"
    /\ loading = FALSE
    /\ files = <<>>
    /\ tzpc = "done"
    /\ tzLoading = FALSE
    /\ tzFile # NoFile
    /\ tzFile.sha256 = "deadbeef"

(* ------------------------------------------------------------------ *)
(* C20                                                                *)
(* ------------------------------------------------------------------ *)

\* The lines of a text: its segments between line feeds.
RECURSIVE LinesOf(_)
LinesOf(text) ==
    LET feeds == PositionsOf(text, "\n")
    IN  IF feeds = {} THEN << text >>
        ELSE LET k == CHOOSE i \in feeds : \A j \in feeds : i <= j
             IN  << SubSeq(text, 1, k - 1) >> \o LinesOf(SubSeq(text, k + 1, Len(text)))

\* The ":http:" argument of an rclone command: what stands between
\* "    :http:" and " . \" on its third line.
HttpArg(cmd) ==
    LET line == LinesOf(cmd)[3]
    IN  SubSeq(line, Len("    :http:") + 1, Len(line) - Len(" . \\"))

\* s without the prefix p: what follows p when s starts with p, s otherwise.
HasPrefix(s, p) == Len(s) >= Len(p) /\ SubSeq(s, 1, Len(p)) = p
WithoutPrefix(s, p) == IF HasPrefix(s, p) THEN SubSeq(s, Len(p) + 1, Len(s)) ELSE s

\* The positions at which p occurs in s.
OccurrencesOf(s, p) ==
    { k \in 1..(Len(s) - Len(p) + 1) : SubSeq(s, k, k + Len(p) - 1) = p }

\* s without the first occurrence of p, s itself when p does not occur.
WithoutFirst(s, p) ==
    LET occ == OccurrencesOf(s, p)
    IN  IF occ = {} THEN s
        ELSE LET k == CHOOSE i \in occ : \A j \in occ : i <= j
             IN  SubSeq(s, 1, k - 1) \o SubSeq(s, k + Len(p), Len(s))

\* The row the model follows offers the rclone command.
RowOffersRclone == row # 0 /\ variant \in RcloneVariants

\* The command of the row depends on the url of its file alone: it is the
\* command of a file that has no other field, and it is what copyRclone
\* wrote to the clipboard, whatever the state of the dialog.
CommandOfUrlAlone ==
    LET cmd == RcloneCmd(variant, files[row])
    IN  /\ cmd = RcloneCmd(variant, [url |-> files[row].url])
        /\ clipboard.by = "copyRclone" => clipboard.text = cmd

\* C20, as claimed: the ":http:" argument of a row's rclone command is the
\* url of its file without the prefix "https://download.openplanetdata.com/",
\* and the command depends on nothing but the url.
C20_HttpArgIsUrlWithoutPrefix ==
    RowOffersRclone =>
        /\ HttpArg(RcloneCmd(variant, files[row]))
               = WithoutPrefix(files[row].url, "https://download.openplanetdata.com/")
        /\ CommandOfUrlAlone

\* C20, amended: the ":http:" argument of a row's rclone command is the url
\* of its file without the first occurrence of
\* "https://download.openplanetdata.com/" -- for a url that starts with it,
\* the url without that prefix, the path relative to the download host --
\* and the command depends on nothing but the url.
C20_HttpArgIsUrlWithoutFirstBase ==
    RowOffersRclone =>
        LET url == files[row].url
            arg == HttpArg(RcloneCmd(variant, files[row]))
        IN  /\ arg = WithoutFirst(url, "https://download.openplanetdata.com/")
            /\ HasPrefix(url, "https://download.openplanetdata.com/") =>
                   "https://download.openplanetdata.com/" \o arg = url
            /\ CommandOfUrlAlone

C20_Witness ==
    /\ RowOffersRclone
    /\ clipboard.by = "copyRclone"
    /\ rcloneCopied = FALSE
    /\ files[row].url = "https://download.openplanetdata.com/osm/planet/gol/planet-latest.osm.gol"
    /\ HttpArg(clipboard.text) = "osm/planet/gol/planet-latest.osm.gol"

(* ------------------------------------------------------------------ *)
(* C21                                                                *)
(* ------------------------------------------------------------------ *)

\* A call of a copy handler ends at a clipboard write that rejects.
CopyRejected == lastCall' # lastCall /\ lastCall'.outcome = "rejected"

\* C21: when the clipboard write of copyHash or of copyRclone rejects, the
\* call changes nothing: the copied indicators are as they were -- false
\* when they were false --, no timer is started, and files, loading, the
\* open flag of the dialog, the clipboard and every other piece of state
\* are unchanged.
C21_ClipboardFailureNoOp ==
    [][CopyRejected =>
           /\ UNCHANGED << copied, rcloneCopied >>
           /\ UNCHANGED << copiedTimers, rcloneTimers >>
           /\ UNCHANGED << files, loading, rcloneOpen >>
           /\ UNCHANGED << osmRest, tzRest, tzLoading, viewAlive, row, now,
                           clipboard >>]_vars

C21_Witness ==
    /\ row # 0
    /\ lastCall = [handler |-> "copyHash", outcome |-> "rejected"]
    /\ copied = FALSE
    /\ copiedTimers = <<>>
    /\ clipboard = NoClip
    /\ loading = FALSE

(* ------------------------------------------------------------------ *)
(* C22                                                                *)
(* ------------------------------------------------------------------ *)

\* The fields of a record that enrichment is to leave as they are.
CarriedFields ==
    {"url", "filename", "kind", "size", "created", "version", "deprecated",
     "deprecation_reason"}

\* The records a and b agree on the field f: both lack it, or both have it
\* with the same value.
AgreeOn(a, b, f) ==
    /\ f \in DOMAIN a <=> f \in DOMAIN b
    /\ f \in DOMAIN a => a[f] = b[f]

\* The record rec is the normalized record it but for sha256.
OnlySha256Added(rec, it) ==
    /\ \A f \in CarriedFields : AgreeOn(rec, it, f)
    /\ DOMAIN rec = DOMAIN it \cup {"sha256"}

\* The normalized records carry no sha256.
ItemsUntouched == \A i \in DOMAIN items : "sha256" \notin DOMAIN items[i]

\* Every enriched record, while the checksum fetches settle and once the
\* list is displayed, is its normalized record but for sha256.
EnrichedAgree ==
    /\ pc = "awaitAll" =>
           \A i \in DOMAIN withHash :
               withHash[i] # Hole => OnlySha256Added(withHash[i], items[i])
    /\ Displayed =>
           \E m \in Matchings :
               \A k \in DOMAIN files : OnlySha256Added(files[k], items[m[k]])

\* C22: enrichment changes only sha256 -- every enriched record agrees with
\* its normalized record on url, filename, kind, size, created, version,
\* deprecated and deprecation_reason -- and the normalized records are not
\* mutated: from their construction on they stay the same and carry no
\* sha256, also after enrichment.
C22_EnrichmentAddsOnlySha256 ==
    /\ [](ItemsUntouched /\ EnrichedAgree)
    /\ [][(pc = "awaitAll" \/ pc = "done") => UNCHANGED items]_vars

C22_Witness ==
    /\ Displayed
    /\ variant = "planet"
    /\ Len(files) = 2
    /\ files[1].sha256 = "deadbeef"
    /\ files[1].version = "2"
    /\ files[1].deprecated
    /\ files[2].sha256 = NA
    /\ ItemsUntouched

(* ------------------------------------------------------------------ *)
(* C23                                                                *)
(* ------------------------------------------------------------------ *)

\* Every checksum fetch has settled and the enriched list is not sorted yet.
AllSettled == pc = "awaitAll" /\ pending = {}

\* C23: the extension sort applied to a list that is already its output
\* gives the same sequence, element for element: for the enriched list of
\* every run, sorting the sorted list changes nothing, and the list a
\* sorting variant displays is left as it is by another sort.
C23_SortIdempotent ==
    /\ AllSettled =>
           LET once == SortByExt(withHash) IN SortByExt(once) = once
    /\ (Displayed /\ variant \in SortingVariants) => SortByExt(files) = files

C23_Witness ==
    /\ Displayed
    /\ variant \in SortingVariants
    /\ Len(files) = 2
    /\ Extension(files[1]) = Extension(files[2])
    /\ files[1] # files[2]
    /\ SortByExt(files) = files

(* ------------------------------------------------------------------ *)
(* C25                                                                *)
(* ------------------------------------------------------------------ *)

\* A successful copy of the handler whose timers are given was made less
\* than ResetDelay ago: its timer, set for ResetDelay after the copy, is not
\* due yet.
CopiedWithinDelay(timers) == \E i \in DOMAIN timers : timers[i] > now

\* C25: after a successful copy the copied indicator stays true for a full
\* 1500 ms counted from the most recent successful copy -- also when the
\* timer of an earlier copy fires in between --, for copyHash and for
\* copyRclone.
C25_IndicatorLastsFullDelay ==
    /\ CopiedWithinDelay(copiedTimers) => copied
    /\ CopiedWithinDelay(rcloneTimers) => rcloneCopied

(* ------------------------------------------------------------------ *)
(* C26                                                                *)
(* ------------------------------------------------------------------ *)

\* The checksum of a file is usable: present, not empty and not the sentinel.
UsableChecksum(file) ==
    "sha256" \in DOMAIN file /\ file.sha256 \notin {"", NA}

\* copyHash has just been called.
CopyHashCalled == lastCall' # lastCall /\ lastCall'.handler = "copyHash"

\* C26: a call of copyHash for a row without a usable checksum -- absent,
\* empty or "N/A" -- returns at once: no clipboard write, copied and the
\* timers as they were, nothing else changed; the copy button of a row is
\* rendered exactly when its checksum is usable, and the clipboard holds
\* from copyHash nothing but a usable checksum.
C26_CopyHashNeedsChecksum ==
    /\ [](row # 0 =>
             /\ CopyButtonRendered(files[row]) <=> UsableChecksum(files[row])
             /\ clipboard.by = "copyHash" =>
                    (UsableChecksum(files[row]) /\ clipboard.text = files[row].sha256))
    /\ [][(CopyHashCalled /\ ~UsableChecksum(files[row])) =>
             /\ lastCall'.outcome = "returned"
             /\ UNCHANGED << clipboard, copied, copiedTimers, rcloneTimers >>
             /\ UNCHANGED << osmRest, loading, tzRest, tzLoading, viewAlive,
                             row, rcloneOpen, rcloneCopied, now >>]_vars

C26_Witness ==
    /\ row # 0
    /\ files[row].sha256 = ""
    /\ ~CopyButtonRendered(files[row])
    /\ lastCall = [handler |-> "copyHash", outcome |-> "returned"]
    /\ clipboard = NoClip
    /\ copied = FALSE
    /\ copiedTimers = <<>>

(* ------------------------------------------------------------------ *)
(* C27                                                                *)
(* ------------------------------------------------------------------ *)

\* The matching m pairs every displayed record with the item it enriches.
PairsWithItems(m) ==
    \A k \in DOMAIN files :
        IsEnrichmentOf(files[k], items[m[k]], DueSha256(resp[m[k]]))

\* The matching m keeps the manifest order of the records of one extension.
KeepsOrderWithinExtension(m) ==
    \A k, l \in DOMAIN files :
        (k < l /\ Extension(files[k]) = Extension(files[l])) => m[k] < m[l]

\* C27: in the variants that sort, any two displayed records of the same
\* extension stand in the order their entries have in the manifest,
\* whatever the order in which the checksum fetches settled.
C27_SortStable ==
    (Displayed /\ variant \in SortingVariants) =>
        \E m \in Matchings : PairsWithItems(m) /\ KeepsOrderWithinExtension(m)

C27_Witness ==
    /\ Displayed
    /\ variant \in SortingVariants
    /\ outOfOrder
    /\ Len(files) = 2
    /\ Extension(files[1]) = Extension(files[2])
    /\ files[1].url # files[2].url
    /\ files[1].url = items[1].url
    /\ files[2].url = items[2].url

(* ------------------------------------------------------------------ *)
(* C24                                                                *)
(* ------------------------------------------------------------------ *)

\* The ".metadata" fetch failed: the network, or a body that is not JSON.
TzMetaFailed == tzMeta \in {"rejected", "invalid"}

\* After a ".metadata" fetch that failed no ".sha256" fetch is issued,
\* tzFile is null and tzLoading is false.
TzFailsClosed ==
    TzMetaFailed =>
        /\ tzRequests = << TzBaseUrl(variant) \o ".metadata" >>
        /\ tzFile = NoFile
        /\ tzLoading = FALSE

\* tzFile is set from the metadata, with the sentinel for its checksum.
TzFileSetWithSentinel ==
    /\ tzFile # NoFile
    /\ tzFile.sha256 = NA
    /\ tzFile.size = tzData.size
    /\ tzFile.created = tzData.created

\* After the ".metadata" fetch fulfilled, tzLoading is false only once the
\* ".sha256" fetch has settled.
TzLoadingUntilShaSettled ==
    (tzMeta = "parsed" /\ tzLoading = FALSE) => tzResp # Unsettled

\* C24, as claimed: if the ".metadata" fetch fails, no ".sha256" fetch is
\* issued, tzFile stays null and tzLoading becomes false; if it succeeds
\* and the ".sha256" fetch rejects, tzFile is set all the same, with sha256
\* "N/A" and size and created of the metadata, and tzLoading becomes false
\* only after the ".sha256" fetch has settled.
C24_TzLoadSequence ==
    /\ TzFailsClosed
    /\ (tzMeta = "parsed" /\ tzResp = Rejected) =>
           (TzFileSetWithSentinel /\ tzLoading = FALSE)
    /\ TzLoadingUntilShaSettled

\* C24, amended: as claimed when the ".metadata" body is an object; when
\* it is the JSON value null, the ".sha256" fetch is issued and awaited all
\* the same, reading meta.created then throws, tzFile stays null and
\* tzLoading becomes false.
C24_TzLoadSequenceOfObjectMetadata ==
    /\ TzFailsClosed
    /\ (tzMeta = "parsed" /\ tzData.shape = "object" /\ tzResp = Rejected) =>
           (TzFileSetWithSentinel /\ tzLoading = FALSE)
    /\ (tzMeta = "parsed" /\ tzData.shape = "null" /\ tzResp # Unsettled) =>
           /\ Len(tzRequests) = 2
           /\ tzFile = NoFile
           /\ tzLoading = FALSE
    /\ TzLoadingUntilShaSettled

C24_Witness ==
    /\ tzMeta = "parsed"
    /\ tzData.shape = "object"
    /\ tzRequests = << TzBaseUrl(variant) \o ".metadata",
                       TzBaseUrl(variant) \o ".sha256" >>
    /\ tzResp = Rejected
    /\ TzFileSetWithSentinel
    /\ tzFile.size = JSNum(42)
    /\ tzLoading = FALSE

====
